---------------------------- MODULE Spec2Model ----------------------------
(***************************************************************************)
(* A model of the softkomik scraping service: the HTTP routes, the query   *)
(* operations behind them, the embedded-payload extractor, the listing     *)
(* normalizer, the image path resolver and the chapter resolver.           *)
(*                                                                         *)
(* Program strings that the code inspects (chapter numbers, image paths,   *)
(* slugs) are sequences of one-character strings.  Property names, which   *)
(* the code only ever compares, are plain strings.                         *)
(***************************************************************************)
EXTENDS Integers, Sequences, FiniteSets, TLC

VARIABLES
    pc,         \* position of the request handler: "idle", "await", "done"
    req,        \* the request being served (route and parameters)
    inflight,   \* the upstream path of the fetch being awaited
    variations, \* tryFetchChapter: the chapter variants being probed
    pass,       \* tryFetchChapter: 1 or 2 while probing, 0 otherwise
    idx,        \* tryFetchChapter: index of the variant being fetched
    log,        \* every upstream fetch so far, with its outcome
    html,       \* name of the page the operation went on to parse
    outcome,    \* what the query operation returned or threw
    response    \* the HTTP response sent to the client

vars == <<pc, req, inflight, variations, pass, idx, log, html, outcome, response>>

---------------------------------------------------------------------------
(* JavaScript values *)

Undefined == [t |-> "undefined"]
Null      == [t |-> "null"]
Bool(b)   == [t |-> "bool", b |-> b]
Num(n)    == [t |-> "num", n |-> n]
Str(s)    == [t |-> "str", s |-> s]
Arr(a)    == [t |-> "arr", a |-> a]
\* an object is the sequence of its <<name, value>> members, in insertion order
Obj(m)    == [t |-> "obj", m |-> m]

\* a thrown exception, as the result of an expression
Throw(e)   == [t |-> "throw", e |-> e]
IsThrow(v) == v.t = "throw"

IsNullish(v) == v.t \in {"undefined", "null"}

\* ToBoolean: the falsy values are undefined, null, false, 0 and ""
Truthy(v) ==
    CASE v.t \in {"undefined", "null"} -> FALSE
      [] v.t = "bool" -> v.b
      [] v.t = "num"  -> v.n # 0
      [] v.t = "str"  -> v.s # <<>>
      [] OTHER        -> TRUE

\* own members of an object with this name, in order
Members(v, name) == SelectSeq(v.m, LAMBDA p : p[1] = name)

\* v.name: a TypeError on undefined and null, the member of an object, the
\* length of a string or an array, undefined otherwise
Get(v, name) ==
    CASE IsThrow(v)   -> v
      [] IsNullish(v) -> Throw("TypeError")
      [] v.t = "obj"  ->
            IF Members(v, name) = <<>> THEN Undefined
            ELSE Members(v, name)[Len(Members(v, name))][2]
      [] v.t = "str" /\ name = "length" -> Num(Len(v.s))
      [] v.t = "arr" /\ name = "length" -> Num(Len(v.a))
      [] OTHER -> Undefined

\* v?.name
OptGet(v, name) ==
    IF IsThrow(v) THEN v
    ELSE IF IsNullish(v) THEN Undefined
    ELSE Get(v, name)

\* v?.[i] with i counted from 0
OptIndex(v, i) ==
    CASE IsThrow(v)   -> v
      [] IsNullish(v) -> Undefined
      [] v.t = "arr"  -> IF i < Len(v.a) THEN v.a[i + 1] ELSE Undefined
      [] v.t = "str"  -> IF i < Len(v.s) THEN Str(<<v.s[i + 1]>>) ELSE Undefined
      [] OTHER        -> Undefined

\* a || b
OrElse(a, b) == IF IsThrow(a) THEN a ELSE IF Truthy(a) THEN a ELSE b

---------------------------------------------------------------------------
(* Strings *)

StartsWith(s, p) == Len(s) >= Len(p) /\ SubSeq(s, 1, Len(p)) = p
EndsWith(s, p)   == Len(s) >= Len(p) /\ SubSeq(s, Len(s) - Len(p) + 1, Len(s)) = p

RECURSIVE Repeat(_, _)
Repeat(c, n) == IF n <= 0 THEN <<>> ELSE <<c>> \o Repeat(c, n - 1)

\* String.prototype.padStart(width, c) for a one-character filler
PadStart(s, width, c) == Repeat(c, width - Len(s)) \o s

\* the value of a digit in radix 16, or -1
DigitVal(c) ==
    CASE c = "0" -> 0 [] c = "1" -> 1 [] c = "2" -> 2 [] c = "3" -> 3
      [] c = "4" -> 4 [] c = "5" -> 5 [] c = "6" -> 6 [] c = "7" -> 7
      [] c = "8" -> 8 [] c = "9" -> 9
      [] c \in {"a", "A"} -> 10 [] c \in {"b", "B"} -> 11
      [] c \in {"c", "C"} -> 12 [] c \in {"d", "D"} -> 13
      [] c \in {"e", "E"} -> 14 [] c \in {"f", "F"} -> 15
      [] OTHER -> -1

IsDigitIn(c, radix) == DigitVal(c) >= 0 /\ DigitVal(c) < radix

RECURSIVE TrimStart(_)
TrimStart(s) == IF s # <<>> /\ s[1] = " " THEN TrimStart(Tail(s)) ELSE s

\* the longest prefix of s made of digits of the radix
RECURSIVE DigitPrefix(_, _)
DigitPrefix(s, radix) ==
    IF s # <<>> /\ IsDigitIn(s[1], radix)
    THEN <<s[1]>> \o DigitPrefix(Tail(s), radix)
    ELSE <<>>

RECURSIVE DigitsValue(_, _)
DigitsValue(z, radix) ==
    IF z = <<>> THEN 0
    ELSE DigitsValue(SubSeq(z, 1, Len(z) - 1), radix) * radix + DigitVal(z[Len(z)])

NaN == [nan |-> TRUE, neg |-> FALSE, mag |-> 0]

\* parseInt(s) without a radix: leading blanks are skipped, a sign is read,
\* "0x" selects radix 16, the longest digit prefix is the value, and no digit
\* gives NaN.  The sign is kept apart from the magnitude: "-0" parses to -0.
ParseInt(s) ==
    LET t      == TrimStart(s)
        neg    == t # <<>> /\ t[1] = "-"
        u      == IF t # <<>> /\ t[1] \in {"-", "+"} THEN Tail(t) ELSE t
        hex    == Len(u) >= 2 /\ u[1] = "0" /\ u[2] \in {"x", "X"}
        radix  == IF hex THEN 16 ELSE 10
        w      == IF hex THEN SubSeq(u, 3, Len(u)) ELSE u
        z      == DigitPrefix(w, radix)
    IN  IF z = <<>> THEN NaN
        ELSE [nan |-> FALSE, neg |-> neg, mag |-> DigitsValue(z, radix)]

DigitChar(d) ==
    CASE d = 0 -> "0" [] d = 1 -> "1" [] d = 2 -> "2" [] d = 3 -> "3"
      [] d = 4 -> "4" [] d = 5 -> "5" [] d = 6 -> "6" [] d = 7 -> "7"
      [] d = 8 -> "8" [] d = 9 -> "9"

RECURSIVE NatToString(_)
NatToString(n) ==
    IF n < 10 THEN <<DigitChar(n)>>
    ELSE NatToString(n \div 10) \o <<DigitChar(n % 10)>>

\* String(num) and num.toString() for an integral number below 10^21:
\* both zeros print as "0", a negative number with a leading "-"
NumberToString(num) ==
    IF num.nan THEN <<"N", "a", "N">>
    ELSE IF num.mag = 0 THEN <<"0">>
    ELSE (IF num.neg THEN <<"-">> ELSE <<>>) \o NatToString(num.mag)

\* [...new Set(xs)]: the first occurrence of each element, in order
RECURSIVE Dedupe(_)
Dedupe(xs) ==
    IF xs = <<>> THEN <<>>
    ELSE LET init == Dedupe(SubSeq(xs, 1, Len(xs) - 1))
             last == xs[Len(xs)]
         IN  IF \E i \in 1..Len(init) : init[i] = last THEN init
             ELSE Append(init, last)

---------------------------------------------------------------------------
(* chapters.ts: getChapterVariations *)

\* one `if (chapter.length < w) variations.push(...padStart(w, '0'))` line
PushPadded(vs, chapter, num, w) ==
    IF Len(chapter) < w THEN Append(vs, PadStart(NumberToString(num), w, "0"))
    ELSE vs

\* mutant: the width-4 variant is forgotten
getChapterVariations_NoWidth4(chapter) ==
    LET num == ParseInt(chapter)
        v0  == <<chapter>>
        v3  == IF ~num.nan /\ NumberToString(num) = chapter
               THEN PushPadded(PushPadded(v0, chapter, num, 2), chapter, num, 3)
               ELSE v0
    IN  Dedupe(v3)

getChapterVariations(chapter) ==
    LET num == ParseInt(chapter)
        v0  == <<chapter>>
        v4  == IF ~num.nan /\ NumberToString(num) = chapter
               THEN PushPadded(PushPadded(PushPadded(v0, chapter, num, 2),
                                          chapter, num, 3), chapter, num, 4)
               ELSE v0
    IN  Dedupe(v4)

---------------------------------------------------------------------------
(* JSON text.  A text is its sequence of tokens: the six punctuators, the  *)
(* three literals, numbers, strings, and member names.                      *)

Tok(k)     == [k |-> k]
TNum(n)    == [k |-> "num", n |-> n]
TStr(s)    == [k |-> "str", s |-> s]
TName(n)   == [k |-> "name", name |-> n]

ParseFail        == [ok |-> FALSE, val |-> Undefined, next |-> 0]
ParseOk(v, next) == [ok |-> TRUE, val |-> v, next |-> next]

RECURSIVE ParseValue(_, _), ParseElements(_, _, _), ParseMembers(_, _, _)

\* the JSON value starting at token i, and the index of the token after it
ParseValue(toks, i) ==
    IF i > Len(toks) THEN ParseFail
    ELSE LET k == toks[i].k IN
         CASE k = "null"  -> ParseOk(Null, i + 1)
           [] k = "true"  -> ParseOk(Bool(TRUE), i + 1)
           [] k = "false" -> ParseOk(Bool(FALSE), i + 1)
           [] k = "num"   -> ParseOk(Num(toks[i].n), i + 1)
           [] k = "str"   -> ParseOk(Str(toks[i].s), i + 1)
           [] k = "["     ->
                IF i + 1 <= Len(toks) /\ toks[i + 1].k = "]"
                THEN ParseOk(Arr(<<>>), i + 2)
                ELSE ParseElements(toks, i + 1, <<>>)
           [] k = "{"     ->
                IF i + 1 <= Len(toks) /\ toks[i + 1].k = "}"
                THEN ParseOk(Obj(<<>>), i + 2)
                ELSE ParseMembers(toks, i + 1, <<>>)
           [] OTHER       -> ParseFail

\* value ("," value)* "]"
ParseElements(toks, i, acc) ==
    LET r == ParseValue(toks, i) IN
    IF ~r.ok \/ r.next > Len(toks) THEN ParseFail
    ELSE IF toks[r.next].k = ","
         THEN ParseElements(toks, r.next + 1, Append(acc, r.val))
    ELSE IF toks[r.next].k = "]"
         THEN ParseOk(Arr(Append(acc, r.val)), r.next + 1)
    ELSE ParseFail

\* name ":" value ("," name ":" value)* "}"
ParseMembers(toks, i, acc) ==
    IF i + 1 > Len(toks) \/ toks[i].k # "name" \/ toks[i + 1].k # ":"
    THEN ParseFail
    ELSE LET r == ParseValue(toks, i + 2) IN
         IF ~r.ok \/ r.next > Len(toks) THEN ParseFail
         ELSE IF toks[r.next].k = ","
              THEN ParseMembers(toks, r.next + 1,
                                Append(acc, <<toks[i].name, r.val>>))
         ELSE IF toks[r.next].k = "}"
              THEN ParseOk(Obj(Append(acc, <<toks[i].name, r.val>>)), r.next + 1)
         ELSE ParseFail

\* JSON.parse(text): the value, or a SyntaxError when the text is not exactly
\* one JSON value
JSONParse(toks) ==
    LET r == ParseValue(toks, 1) IN
    IF r.ok /\ r.next = Len(toks) + 1 THEN r.val ELSE Throw("SyntaxError")

RECURSIVE Stringify(_), StringifyAll(_, _)

\* the text upstream embeds for a JSON value
Stringify(v) ==
    CASE v.t = "null" -> <<Tok("null")>>
      [] v.t = "bool" -> <<Tok(IF v.b THEN "true" ELSE "false")>>
      [] v.t = "num"  -> <<TNum(v.n)>>
      [] v.t = "str"  -> <<TStr(v.s)>>
      [] v.t = "arr"  -> <<Tok("[")>> \o StringifyAll(v.a, FALSE) \o <<Tok("]")>>
      [] v.t = "obj"  -> <<Tok("{")>> \o StringifyAll(v.m, TRUE) \o <<Tok("}")>>

StringifyAll(xs, named) ==
    IF xs = <<>> THEN <<>>
    ELSE (IF named THEN <<TName(xs[1][1]), Tok(":")>> \o Stringify(xs[1][2])
          ELSE Stringify(xs[1]))
         \o (IF Len(xs) > 1 THEN <<Tok(",")>> ELSE <<>>)
         \o StringifyAll(Tail(xs), named)

---------------------------------------------------------------------------
(* HTML documents.  cheerio's load(html) and $('#__NEXT_DATA__').html()    *)
(* see one thing of a page: whether the element exists, and its text.      *)

NoElement       == [element |-> FALSE, text |-> <<>>]
WithScript(txt) == [element |-> TRUE, text |-> txt]

\* $('#__NEXT_DATA__').html(): null without the element, else its text
ScriptContent(doc) == IF doc.element THEN [isNull |-> FALSE, text |-> doc.text]
                      ELSE [isNull |-> TRUE, text |-> <<>>]

\* !scriptContent: null and the empty string are falsy
NoScriptContent(sc) == sc.isNull \/ sc.text = <<>>

---------------------------------------------------------------------------
(* Origins and fixed path fragments *)

BASE_URL ==
    <<"h", "t", "t", "p", "s", ":", "/", "/", "s", "o", "f", "t", "k", "o",
      "m", "i", "k", ".", "c", "o", "m">>
IMAGE_BASE_URL ==
    <<"h", "t", "t", "p", "s", ":", "/", "/", "i", "m", "a", "g", "e", ".",
      "s", "o", "f", "t", "k", "o", "m", "i", "k", ".", "c", "o", "m">>
\* the dedicated cover-image origin
COVER_BASE_URL ==
    <<"h", "t", "t", "p", "s", ":", "/", "/", "c", "o", "v", "e", "r", ".",
      "s", "o", "f", "t", "k", "o", "m", "i", "k", ".", "c", "o", "m">>

LocaleSuffix ==
    <<"-", "b", "a", "h", "a", "s", "a", "-", "i", "n", "d", "o", "n", "e",
      "s", "i", "a">>
PfxHttp         == <<"h", "t", "t", "p">>
PfxImageCover   == <<"i", "m", "a", "g", "e", "-", "c", "o", "v", "e", "r", "/">>
PfxUploadsCover == <<"u", "p", "l", "o", "a", "d", "s", "-", "c", "o", "v", "e", "r">>
PfxNodeJs       == <<"N", "o", "d", "e", "J", "s", "/">>
PfxImgFile      == <<"i", "m", "g", "-", "f", "i", "l", "e", "/">>
SegSoftkomik    == <<"/", "s", "o", "f", "t", "k", "o", "m", "i", "k", "/">>
SegChapter      == <<"/", "c", "h", "a", "p", "t", "e", "r", "/">>
PathList        == <<"/", "k", "o", "m", "i", "k", "/", "l", "i", "s", "t">>
PathType        == <<"/", "k", "o", "m", "i", "k", "/", "t", "y", "p", "e", "/">>
PathGenre       == <<"/", "k", "o", "m", "i", "k", "/", "g", "e", "n", "r", "e", "/">>

---------------------------------------------------------------------------
(* utils.ts *)

\* mutant: the try/catch around JSON.parse and the property chain is missing
extractNextData_NoCatch(doc) ==
    LET sc == ScriptContent(doc) IN
    IF NoScriptContent(sc) THEN Null
    ELSE OptGet(OptGet(Get(JSONParse(sc.text), "props"), "pageProps"), "data")

\* the value at props.pageProps.data of the embedded script, or null; an
\* exception of JSON.parse or of the property chain is caught
extractNextData(doc) ==
    LET sc == ScriptContent(doc) IN
    IF NoScriptContent(sc) THEN Null
    ELSE LET data == JSONParse(sc.text)
             r    == OptGet(OptGet(Get(data, "props"), "pageProps"), "data")
         IN  IF IsThrow(r) THEN Null ELSE r

\* mutant: without the cover rule, a cover path is resolved by the fallback
resolveImage_NoCoverRule(imagePath) ==
    IF IsThrow(imagePath) THEN imagePath
    ELSE IF ~Truthy(imagePath) THEN Null
    ELSE IF imagePath.t # "str" THEN Throw("TypeError")
    ELSE IF StartsWith(imagePath.s, PfxHttp) THEN imagePath
    ELSE LET normalizedPath == IF StartsWith(imagePath.s, <<"/">>)
                               THEN Tail(imagePath.s) ELSE imagePath.s
         IN  IF StartsWith(normalizedPath, PfxNodeJs)
                \/ StartsWith(normalizedPath, PfxImgFile)
             THEN Str(IMAGE_BASE_URL \o SegSoftkomik \o normalizedPath)
             ELSE Str(IMAGE_BASE_URL \o <<"/">> \o normalizedPath)

\* mutant: without the chapter rule, a chapter path is resolved by the fallback
resolveImage_NoChapterRule(imagePath) ==
    IF IsThrow(imagePath) THEN imagePath
    ELSE IF ~Truthy(imagePath) THEN Null
    ELSE IF imagePath.t # "str" THEN Throw("TypeError")
    ELSE IF StartsWith(imagePath.s, PfxHttp) THEN imagePath
    ELSE LET normalizedPath == IF StartsWith(imagePath.s, <<"/">>)
                               THEN Tail(imagePath.s) ELSE imagePath.s
         IN  IF StartsWith(normalizedPath, PfxImageCover)
                \/ StartsWith(normalizedPath, PfxUploadsCover)
             THEN Str(COVER_BASE_URL \o <<"/">> \o normalizedPath)
             ELSE Str(IMAGE_BASE_URL \o <<"/">> \o normalizedPath)

\* a falsy path gives null; a truthy value that is no string has no
\* startsWith method, and calling it is a TypeError
resolveImage(imagePath) ==
    IF IsThrow(imagePath) THEN imagePath
    ELSE IF ~Truthy(imagePath) THEN Null
    ELSE IF imagePath.t # "str" THEN Throw("TypeError")
    ELSE IF StartsWith(imagePath.s, PfxHttp) THEN imagePath
    ELSE LET normalizedPath == IF StartsWith(imagePath.s, <<"/">>)
                               THEN Tail(imagePath.s) ELSE imagePath.s
         IN  IF StartsWith(normalizedPath, PfxImageCover)
                \/ StartsWith(normalizedPath, PfxUploadsCover)
             THEN Str(COVER_BASE_URL \o <<"/">> \o normalizedPath)
             ELSE IF StartsWith(normalizedPath, PfxNodeJs)
                     \/ StartsWith(normalizedPath, PfxImgFile)
             THEN Str(IMAGE_BASE_URL \o SegSoftkomik \o normalizedPath)
             ELSE Str(IMAGE_BASE_URL \o <<"/">> \o normalizedPath)

\* titleSlug.replace(/-bahasa-indonesia$/, ''): only a string has replace
extractSlug(titleSlug) ==
    IF IsThrow(titleSlug) THEN titleSlug
    ELSE IF titleSlug.t # "str" THEN Throw("TypeError")
    ELSE IF EndsWith(titleSlug.s, LocaleSuffix)
         THEN Str(SubSeq(titleSlug.s, 1, Len(titleSlug.s) - Len(LocaleSuffix)))
    ELSE titleSlug

\* the first exception among the values, or none
FirstThrow(vals) ==
    IF \E i \in 1..Len(vals) : IsThrow(vals[i])
    THEN vals[CHOOSE i \in 1..Len(vals) :
                 IsThrow(vals[i]) /\ \A j \in 1..(i - 1) : ~IsThrow(vals[j])]
    ELSE Undefined

\* mutant: the url is built from the stripped slug
transformComicListing_UrlFromSlug(item) ==
    LET title     == Get(item, "title")
        slug      == extractSlug(Get(item, "title_slug"))
        url       == IF IsThrow(slug) THEN slug
                     ELSE Str(BASE_URL \o <<"/">> \o slug.s)
        thumbnail == resolveImage(Get(item, "gambar"))
        ex        == FirstThrow(<<title, slug, url, thumbnail>>)
    IN  IF IsThrow(ex) THEN ex
        ELSE [t             |-> "ComicListing",
              title         |-> title,
              slug          |-> slug,
              url           |-> url,
              thumbnail     |-> thumbnail,
              type          |-> OrElse(Get(item, "type"), Null),
              status        |-> OrElse(Get(item, "status"), Null),
              latestChapter |-> OrElse(Get(item, "latest_chapter"), Null),
              updatedAt     |-> OrElse(Get(item, "updated_at"), Null)]

transformComicListing(item) ==
    LET title     == Get(item, "title")
        slug      == extractSlug(Get(item, "title_slug"))
        url       == IF IsThrow(slug) THEN slug
                     ELSE Str(BASE_URL \o <<"/">> \o Get(item, "title_slug").s)
        thumbnail == resolveImage(Get(item, "gambar"))
        ex        == FirstThrow(<<title, slug, url, thumbnail>>)
    IN  IF IsThrow(ex) THEN ex
        ELSE [t             |-> "ComicListing",
              title         |-> title,
              slug          |-> slug,
              url           |-> url,
              thumbnail     |-> thumbnail,
              type          |-> OrElse(Get(item, "type"), Null),
              status        |-> OrElse(Get(item, "status"), Null),
              latestChapter |-> OrElse(Get(item, "latest_chapter"), Null),
              updatedAt     |-> OrElse(Get(item, "updated_at"), Null)]

\* xs.map(transformComicListing): only an array has map; the first exception
\* of a call ends the map
MapListing(xs) ==
    IF IsThrow(xs) THEN xs
    ELSE IF xs.t # "arr" THEN Throw("TypeError")
    ELSE LET ys == [i \in 1..Len(xs.a) |-> transformComicListing(xs.a[i])]
             ex == FirstThrow(ys)
         IN  IF IsThrow(ex) THEN ex ELSE Arr(ys)

---------------------------------------------------------------------------
(* home.ts, comics.ts, browse.ts: what each operation does with the page   *)
(* its fetch returned                                                       *)

EmptySearchResult ==
    [t |-> "SearchResult", comics |-> Arr(<<>>),
     currentPage |-> Num(1), totalPages |-> Num(1)]

\* scrapeNewComics ("newKomik") and scrapeLatestUpdates ("updateNonProject")
HomeListing(doc, section) ==
    LET data == extractNextData(doc) IN
    IF ~Truthy(OptGet(data, section)) THEN Arr(<<>>)
    ELSE MapListing(Get(data, section))

\* mutant: the payload is tested with `data === null` instead of `!data`
ListPage_StrictNull(doc) ==
    LET data == extractNextData(doc) IN
    IF data = Null THEN EmptySearchResult
    ELSE LET comics == MapListing(Get(data, "data")) IN
         IF IsThrow(comics) THEN comics
         ELSE [t |-> "SearchResult", comics |-> comics,
               currentPage |-> Get(data, "page"),
               totalPages  |-> Get(data, "maxPage")]

\* scrapeComicList, scrapeByType and scrapeByGenre after their fetch
ListPage(doc) ==
    LET data == extractNextData(doc) IN
    IF ~Truthy(data) THEN EmptySearchResult
    ELSE LET comics == MapListing(Get(data, "data")) IN
         IF IsThrow(comics) THEN comics
         ELSE [t |-> "SearchResult", comics |-> comics,
               currentPage |-> Get(data, "page"),
               totalPages  |-> Get(data, "maxPage")]

\* scrapeComicDetail after its fetch
ComicDetail(doc) ==
    LET data == extractNextData(doc) IN
    IF ~Truthy(data) THEN Null
    ELSE LET thumbnail == resolveImage(Get(data, "gambar")) IN
         IF IsThrow(thumbnail) THEN thumbnail
         ELSE [t                |-> "ComicDetail",
               title            |-> Get(data, "title"),
               alternativeTitle |-> OrElse(Get(data, "title_alt"), Null),
               type             |-> OrElse(Get(data, "type"), Null),
               status           |-> OrElse(Get(data, "status"), Null),
               releaseYear      |-> OrElse(Get(data, "tahun"), Null),
               author           |-> OrElse(Get(data, "author"), Null),
               rating           |-> OrElse(Get(data, "rating"), Null),
               description      |-> OrElse(Get(data, "sinopsis"), Null),
               genres           |-> OrElse(Get(data, "Genre"), Arr(<<>>)),
               thumbnail        |-> thumbnail,
               visitor          |-> OrElse(Get(data, "visitor"), Null),
               latestChapter    |-> OrElse(Get(data, "latest_chapter"), Null),
               updatedAt        |-> OrElse(Get(data, "updated_at"), Null)]

---------------------------------------------------------------------------
(* chapters.ts *)

\* a > 0 for the values a length can be here: a number, or undefined (which
\* compares false)
GreaterThanZero(v) == v.t = "num" /\ v.n > 0

\* the body of the try block of probe pass one, after the fetch: "images"
\* when the page embeds a non-empty imageSrc, "threw" when JSON.parse or the
\* property chain threw, "noimages" otherwise
ProbeImages(doc) ==
    LET sc == ScriptContent(doc) IN
    IF NoScriptContent(sc) THEN "noimages"
    ELSE LET fullData    == JSONParse(sc.text)
             chapterData == OptGet(OptGet(Get(fullData, "props"), "pageProps"), "data")
             imageSrc    == OptGet(OptGet(chapterData, "data"), "imageSrc")
         IN  IF IsThrow(imageSrc) THEN "threw"
             ELSE IF Truthy(imageSrc)
                     /\ GreaterThanZero(Get(imageSrc, "length"))
             THEN "images"
             ELSE "noimages"

\* the values `for (const src of v)` visits: the elements of an array, the
\* characters of a string; nothing else that JSON can carry is iterable
Iterate(v) ==
    CASE v.t = "arr" -> v.a
      [] v.t = "str" -> [i \in 1..Len(v.s) |-> Str(<<v.s[i]>>)]
      [] OTHER       -> <<Throw("TypeError")>>

\* the image loop: every source goes through resolveImage, a null result is
\* skipped, an exception ends the loop
BuildImages(imageSrc) ==
    IF ~Truthy(imageSrc) THEN Arr(<<>>)
    ELSE LET urls == [i \in 1..Len(Iterate(imageSrc)) |->
                         resolveImage(Iterate(imageSrc)[i])]
             ex   == FirstThrow(urls)
         IN  IF IsThrow(ex) THEN ex
             ELSE Arr(SelectSeq(urls, Truthy))

\* mutant: a chapter without images is returned as null
ChapterImages_NullWithoutImages(doc, comicSlug, usedChapter) ==
    LET data   == extractNextData(doc)
        images == BuildImages(OptGet(OptGet(data, "data"), "imageSrc"))
    IN  IF ~Truthy(data) THEN Null
        ELSE IF IsThrow(images) THEN images
        ELSE IF images.a = <<>> THEN Null
        ELSE [t             |-> "ChapterImages",
              title         |-> OrElse(OptGet(Get(data, "komik"), "title"), Str(<<>>)),
              comicSlug     |-> comicSlug,
              chapterNumber |-> usedChapter,
              images        |-> images,
              prevChapter   |-> Null,
              nextChapter   |-> Null]

\* scrapeChapterImages once tryFetchChapter has returned {html, usedChapter}
ChapterImages(doc, comicSlug, usedChapter) ==
    LET sc == ScriptContent(doc) IN
    IF NoScriptContent(sc) THEN Null
    ELSE LET fullData    == JSONParse(sc.text)
             chapterData == OptGet(OptGet(Get(fullData, "props"), "pageProps"), "data")
         IN  IF IsThrow(chapterData) THEN Null
             ELSE IF ~Truthy(chapterData) THEN Null
             ELSE LET images == BuildImages(OptGet(Get(chapterData, "data"), "imageSrc"))
                  IN  IF IsThrow(images) THEN images
                      ELSE [t             |-> "ChapterImages",
                            title         |-> OrElse(OptGet(Get(chapterData, "komik"), "title"),
                                                     Str(<<>>)),
                            comicSlug     |-> comicSlug,
                            chapterNumber |-> usedChapter,
                            images        |-> images,
                            prevChapter   |-> OrElse(OptGet(OptIndex(Get(chapterData, "prevChapter"), 0),
                                                            "chapter"), Null),
                            nextChapter   |-> OrElse(OptGet(OptIndex(Get(chapterData, "nextChapter"), 0),
                                                            "chapter"), Null)]

---------------------------------------------------------------------------
(* The genre list *)

\* the array literal of getGenres, in the order it is written
GenreNames ==
    << <<"A", "c", "t", "i", "o", "n">>,
       <<"A", "d", "v", "e", "n", "t", "u", "r", "e">>,
       <<"C", "o", "m", "e", "d", "y">>,
       <<"C", "o", "o", "k", "i", "n", "g">>,
       <<"D", "r", "a", "m", "a">>,
       <<"E", "c", "c", "h", "i">>,
       <<"F", "a", "n", "t", "a", "s", "y">>,
       <<"H", "a", "r", "e", "m">>,
       <<"H", "i", "s", "t", "o", "r", "i", "c", "a", "l">>,
       <<"H", "o", "r", "r", "o", "r">>,
       <<"I", "s", "e", "k", "a", "i">>,
       <<"J", "o", "s", "e", "i">>,
       <<"m", "a", "g", "i", "c">>,
       <<"M", "a", "r", "t", "i", "a", "l", " ", "A", "r", "t", "s">>,
       <<"M", "e", "c", "h", "a">>,
       <<"M", "i", "l", "i", "t", "a", "r", "y">>,
       <<"M", "u", "s", "i", "c">>,
       <<"M", "y", "s", "t", "e", "r", "y">>,
       <<"O", "n", "e", " ", "S", "h", "o", "t">>,
       <<"P", "s", "y", "c", "h", "o", "l", "o", "g", "i", "c", "a", "l">>,
       <<"R", "o", "m", "a", "n", "c", "e">>,
       <<"S", "c", "h", "o", "o", "l">>,
       <<"S", "c", "h", "o", "o", "l", " ", "L", "i", "f", "e">>,
       <<"S", "c", "i", "-", "f", "i">>,
       <<"S", "e", "i", "n", "e", "n">>,
       <<"S", "h", "o", "u", "j", "o">>,
       <<"S", "h", "o", "u", "j", "o", " ", "A", "i">>,
       <<"S", "h", "o", "u", "n", "e", "n">>,
       <<"S", "h", "o", "u", "n", "e", "n", " ", "A", "i">>,
       <<"S", "l", "i", "c", "e", " ", "o", "f", " ", "L", "i", "f", "e">>,
       <<"S", "p", "o", "r", "t", "s">>,
       <<"S", "u", "p", "e", "r", " ", "P", "o", "w", "e", "r">>,
       <<"S", "u", "p", "e", "r", "n", "a", "t", "u", "r", "a", "l">>,
       <<"T", "h", "r", "i", "l", "l", "e", "r">>,
       <<"T", "r", "a", "g", "e", "d", "y">>,
       <<"W", "e", "b", "t", "o", "o", "n">> >>

\* the characters of the genre names in the order of their UTF-16 code units
CodeUnits ==
    <<" ", "-",
      "A", "B", "C", "D", "E", "F", "G", "H", "I", "J", "K", "L", "M", "N", "O", "P", "Q", "R", "S", "T", "U", "V", "W", "X", "Y", "Z",
      "a", "b", "c", "d", "e", "f", "g", "h", "i", "j", "k", "l", "m", "n", "o", "p", "q", "r", "s", "t", "u", "v", "w", "x", "y", "z">>
CodeUnit(c) == CHOOSE i \in 1..Len(CodeUnits) : CodeUnits[i] = c

\* a < b for strings: by code unit at the first difference, a proper prefix first
StringLess(a, b) ==
    LET n    == IF Len(a) < Len(b) THEN Len(a) ELSE Len(b)
        diff == {i \in 1..n : a[i] # b[i]}
    IN  IF diff = {} THEN Len(a) < Len(b)
        ELSE LET i == CHOOSE k \in diff : \A j \in diff : k <= j
             IN  CodeUnit(a[i]) < CodeUnit(b[i])

\* Array.prototype.sort() without a comparator: ascending by code units, stable
RECURSIVE InsertSorted(_, _), SortStrings(_)
InsertSorted(sorted, x) ==
    IF sorted = <<>> THEN <<x>>
    ELSE IF StringLess(x, sorted[Len(sorted)])
         THEN Append(InsertSorted(SubSeq(sorted, 1, Len(sorted) - 1), x),
                     sorted[Len(sorted)])
    ELSE Append(sorted, x)
SortStrings(xs) ==
    IF xs = <<>> THEN <<>>
    ELSE InsertSorted(SortStrings(SubSeq(xs, 1, Len(xs) - 1)), xs[Len(xs)])

getGenres ==
    LET sorted == SortStrings(GenreNames)
    IN  Arr([i \in 1..Len(sorted) |-> Str(sorted[i])])

---------------------------------------------------------------------------
(* The upstream site.  It may answer any fetch with a failure or with any  *)
(* of these pages; the payloads cover the shapes the operations branch on. *)

\* the page state upstream embeds around a payload
Wrap(payload) ==
    Obj(<< <<"props", Obj(<< <<"pageProps", Obj(<< <<"data", payload>> >>)>> >>)>> >>)

ItemFull ==
    Obj(<< <<"title", Str(<<"S", "L">>)>>,
           <<"title_slug", Str(<<"s", "l">> \o LocaleSuffix)>>,
           <<"type", Str(<<"m">>)>>,
           <<"status", Str(<<"o">>)>>,
           <<"gambar", Str(PfxImageCover \o <<"a">>)>>,
           <<"latest_chapter", Str(<<"8">>)>>,
           <<"updated_at", Str(<<"d">>)>> >>)
ItemSparse ==
    Obj(<< <<"title", Str(<<"T">>)>>, <<"title_slug", Str(<<"t">>)>> >>)
ItemNoSlug ==
    Obj(<< <<"title", Str(<<"T">>)>> >>)

ListPayload(page, maxPage, items) ==
    Obj(<< <<"page", page>>, <<"maxPage", maxPage>>, <<"data", items>> >>)

ChapterPayload(data) ==
    Obj(<< <<"komik", Obj(<< <<"title", Str(<<"S", "L">>)>> >>)>>,
           <<"data", data>>,
           <<"prevChapter", Arr(<< Obj(<< <<"chapter", Str(<<"7">>)>> >>) >>)>>,
           <<"nextChapter", Arr(<<>>)>> >>)

ImageList(srcs) == Obj(<< <<"chapter", Str(<<"8">>)>>, <<"imageSrc", srcs>> >>)

DetailFull ==
    Obj(<< <<"title", Str(<<"S", "L">>)>>,
           <<"title_alt", Str(<<"A">>)>>,
           <<"type", Str(<<"m">>)>>,
           <<"status", Str(<<"o">>)>>,
           <<"tahun", Str(<<"2">>)>>,
           <<"author", Str(<<"C">>)>>,
           <<"sinopsis", Str(<<"D">>)>>,
           <<"Genre", Arr(<<Str(<<"G">>)>>)>>,
           <<"gambar", Str(<<"/">> \o PfxUploadsCover \o <<"/", "a">>)>>,
           <<"latest_chapter", Str(<<"8">>)>>,
           <<"updated_at", Str(<<"d">>)>>,
           <<"visitor", Num(7)>>,
           <<"rating", Obj(<< <<"value", Num(9)>>, <<"member", Num(3)>> >>)>> >>)
DetailEmptyValues ==
    Obj(<< <<"title", Str(<<"S", "L">>)>>,
           <<"title_alt", Str(<<>>)>>,
           <<"tahun", Str(<<>>)>>,
           <<"author", Str(<<>>)>>,
           <<"sinopsis", Str(<<>>)>>,
           <<"Genre", Arr(<<>>)>>,
           <<"gambar", Str(<<>>)>>,
           <<"visitor", Num(0)>> >>)

ExtractionPages ==
    {"no_element", "empty_script", "bad_json", "trailing_json", "json_null",
     "no_props", "props_null", "no_pageProps", "no_data", "data_null",
     "data_zero"}
HomePages    == {"home_ok", "home_not_arrays"}
ListPages    == {"list_ok", "list_page0", "list_nopage", "list_nodata",
                 "list_noslug"}
DetailPages  == {"detail_ok", "detail_sparse", "detail_empty", "detail_badimg"}
ChapterPages == {"ch_images", "ch_noimages", "ch_emptyimages", "ch_badimages",
                 "ch_objimages", "ch_httpimages"}
Pages == ExtractionPages \cup HomePages \cup ListPages \cup DetailPages
            \cup ChapterPages

\* for the pages that embed a well-formed page state with a payload: the payload
PayloadOf(p) ==
    CASE p = "data_null"       -> Null
      [] p = "data_zero"       -> Num(0)
      [] p = "home_ok"         ->
            Obj(<< <<"newKomik", Arr(<<ItemFull>>)>>,
                   <<"updateNonProject", Arr(<<ItemSparse, ItemFull>>)>> >>)
      [] p = "home_not_arrays" ->
            Obj(<< <<"newKomik", Num(5)>>, <<"updateNonProject", Obj(<<>>)>> >>)
      [] p = "list_ok"         -> ListPayload(Num(2), Num(3), Arr(<<ItemFull, ItemSparse>>))
      [] p = "list_page0"      -> ListPayload(Num(0), Num(0), Arr(<<>>))
      [] p = "list_nopage"     -> Obj(<< <<"data", Arr(<<ItemSparse>>)>> >>)
      [] p = "list_nodata"     -> Obj(<< <<"page", Num(1)>>, <<"maxPage", Num(1)>> >>)
      [] p = "list_noslug"     -> ListPayload(Num(1), Num(1), Arr(<<ItemNoSlug>>))
      [] p = "detail_ok"       -> DetailFull
      [] p = "detail_sparse"   -> Obj(<< <<"title", Str(<<"T">>)>> >>)
      [] p = "detail_empty"    -> DetailEmptyValues
      [] p = "detail_badimg"   -> Obj(<< <<"title", Str(<<"T">>)>>, <<"gambar", Num(5)>> >>)
      [] p = "ch_images"       ->
            ChapterPayload(ImageList(Arr(<<Str(PfxImgFile \o <<"a">>), Str(<<>>), Null,
                                           Str(PfxHttp \o <<"s", ":", "/", "/", "h", "/", "a">>),
                                           Str(<<"x">>)>>)))
      [] p = "ch_httpimages"   ->
            ChapterPayload(ImageList(Arr(<<Str(PfxNodeJs \o <<"a">>),
                                           Str(PfxHttp \o <<"a">>)>>)))
      [] p = "ch_noimages"     -> ChapterPayload(Null)
      [] p = "ch_emptyimages"  -> ChapterPayload(ImageList(Arr(<<>>)))
      [] p = "ch_badimages"    -> ChapterPayload(ImageList(Arr(<<Num(5)>>)))
      [] p = "ch_objimages"    -> ChapterPayload(ImageList(Obj(<<>>)))

\* the document behind a page name
HtmlOf(p) ==
    CASE p = "no_element"    -> NoElement
      [] p = "empty_script"  -> WithScript(<<>>)
      [] p = "bad_json"      -> WithScript(<<Tok("{"), TName("props"), Tok(":")>>)
      [] p = "trailing_json" -> WithScript(Stringify(Wrap(Num(1))) \o <<Tok("}")>>)
      [] p = "json_null"     -> WithScript(Stringify(Null))
      [] p = "no_props"      -> WithScript(Stringify(Obj(<<>>)))
      [] p = "props_null"    -> WithScript(Stringify(Obj(<< <<"props", Null>> >>)))
      [] p = "no_pageProps"  -> WithScript(Stringify(Obj(<< <<"props", Obj(<<>>)>> >>)))
      [] p = "no_data"       ->
            WithScript(Stringify(Obj(<< <<"props", Obj(<< <<"pageProps", Obj(<<>>)>> >>)>> >>)))
      [] OTHER               -> WithScript(Stringify(Wrap(PayloadOf(p))))

---------------------------------------------------------------------------
(* The requests a client may send *)

Slugs       == {<<"s", "l">>}
Genres      == {<<"a">>}
Types       == {<<"m", "a", "n", "g", "a">>, <<"M", "a", "n", "g", "a">>,
                <<"n", "o", "v", "e", "l">>}
\* c.req.query(name): undefined when the parameter is not given
PageQueries   == {Undefined, Str(<<"2">>), Str(<<"x">>)}
SearchQueries == {Undefined, Str(<<"s">>)}
\* the chapters asked of the service: plain, padded, decimal, negative
ChapterInputs == {<<"8">>, <<"0", "8">>, <<"1", "7", "9">>,
                  <<"1", ".", "5">>, <<"-", "5">>}

ToLowerChar(c) ==
    CASE c = "A" -> "a" [] c = "G" -> "g" [] c = "M" -> "m" [] c = "N" -> "n"
      [] c = "H" -> "h" [] c = "U" -> "u" [] c = "W" -> "w" [] c = "O" -> "o"
      [] c = "V" -> "v" [] c = "E" -> "e" [] c = "L" -> "l" [] OTHER -> c
ToLowerCase(s) == [i \in 1..Len(s) |-> ToLowerChar(s[i])]

validTypes == {<<"m", "a", "n", "g", "a">>, <<"m", "a", "n", "h", "w", "a">>,
               <<"m", "a", "n", "h", "u", "a">>}

\* parseInt(c.req.query('page') || '1')
PageParam(q) == ParseInt(OrElse(q, Str(<<"1">>)).s)
\* page > 1, which NaN fails
PageAboveOne(page) == ~page.nan /\ ~page.neg /\ page.mag > 1

---------------------------------------------------------------------------
(* http.ts: request(path) *)

NoFetch == [url |-> <<>>, params |-> <<>>]

\* the fetch that request(path) issues; the query string is kept as its
\* sequence of name/value pairs
Request(path, params) ==
    [url    |-> IF StartsWith(path, PfxHttp) THEN path ELSE BASE_URL \o path,
     params |-> params]

PageQueryString(page) ==
    IF PageAboveOne(page) THEN << <<"page", NumberToString(page)>> >> ELSE <<>>

ChapterPath(comicSlug, chapterVar) ==
    <<"/">> \o comicSlug \o LocaleSuffix \o SegChapter \o chapterVar

\* what the upstream site may answer to one fetch: a failure (a network
\* error or a status that is not ok, both thrown by request) or a page
FAILED == "FAILED"
Answers == Pages \cup {FAILED}

---------------------------------------------------------------------------
(* index.ts: the responses *)

Pending    == [t |-> "pending"]
NoResponse == [status |-> 0]

\* a < b on numbers; undefined compares false
JsLess(a, b) == a.t = "num" /\ b.t = "num" /\ a.n < b.n

\* app.onError
ErrorResponse(ex) == [status |-> 500, success |-> FALSE, error |-> ex.e]

ListingResponse(r) ==
    IF IsThrow(r) THEN ErrorResponse(r)
    ELSE [status |-> 200, success |-> TRUE, count |-> Len(r.a), data |-> r]

SearchResponse(r) ==
    IF IsThrow(r) THEN ErrorResponse(r)
    ELSE [status |-> 200, success |-> TRUE,
          pagination |-> [currentPage |-> r.currentPage,
                          totalPages  |-> r.totalPages,
                          hasNext     |-> JsLess(r.currentPage, r.totalPages),
                          hasPrev     |-> JsLess(Num(1), r.currentPage)],
          count |-> Len(r.comics.a), data |-> r.comics]

\* mutant: an exception of the operation is answered 404 as well
LookupResponse_NotFoundOnError(r) ==
    IF IsThrow(r) \/ r = Null THEN [status |-> 404, success |-> FALSE]
    ELSE [status |-> 200, success |-> TRUE, data |-> r]

\* the detail and the chapter routes: a null result is answered 404
LookupResponse(r) ==
    IF IsThrow(r) THEN ErrorResponse(r)
    ELSE IF r = Null THEN [status |-> 404, success |-> FALSE]
    ELSE [status |-> 200, success |-> TRUE, data |-> r]

InvalidTypeResponse == [status |-> 400, success |-> FALSE]

\* the genres route
GenresResponse(genres) ==
    [status |-> 200, success |-> TRUE, count |-> Len(genres.a), data |-> genres]

---------------------------------------------------------------------------
(* The service: one request, from its arrival to its response *)

Init ==
    /\ pc = "idle"
    /\ req = [route |-> "none"]
    /\ inflight = NoFetch
    /\ variations = <<>>
    /\ pass = 0
    /\ idx = 0
    /\ log = <<>>
    /\ html = "none"
    /\ outcome = Pending
    /\ response = NoResponse

\* the handler runs up to the await of its first fetch
Await(r, fetch) ==
    /\ pc = "idle"
    /\ pc' = "await"
    /\ req' = r
    /\ inflight' = fetch
    /\ UNCHANGED <<log, html, outcome, response>>

\* the operation has returned or thrown, and the route has answered
Finish(page, result, resp) ==
    /\ pc' = "done"
    /\ inflight' = NoFetch
    /\ html' = page
    /\ outcome' = result
    /\ response' = resp

LogEntry(p, chapterVar, result) == [pass |-> p, variant |-> chapterVar, result |-> result]

\* GET /api/home/new
ReceiveHomeNew ==
    /\ Await([route |-> "home_new"], Request(<<"/">>, <<>>))
    /\ UNCHANGED <<variations, pass, idx>>

\* GET /api/home/latest
ReceiveHomeLatest ==
    /\ Await([route |-> "home_latest"], Request(<<"/">>, <<>>))
    /\ UNCHANGED <<variations, pass, idx>>

\* GET /api/comics, up to the fetch of scrapeComicList
ReceiveComics ==
    \E q \in PageQueries, sq \in SearchQueries :
        LET page   == PageParam(q)
            search == OrElse(sq, Undefined)
        IN  /\ Await([route |-> "comics", page |-> q, search |-> sq],
                     Request(PathList,
                             PageQueryString(page)
                             \o (IF Truthy(search) THEN << <<"name", search.s>> >>
                                 ELSE <<>>)))
            /\ UNCHANGED <<variations, pass, idx>>

\* GET /api/type/:type: an unknown type is answered 400 without a fetch
ReceiveType ==
    \E type \in Types, q \in PageQueries :
        IF ToLowerCase(type) \notin validTypes
        THEN /\ pc = "idle"
             /\ req' = [route |-> "type", type |-> type, page |-> q]
             /\ Finish("none", Pending, InvalidTypeResponse)
             /\ UNCHANGED <<variations, pass, idx, log>>
        ELSE /\ Await([route |-> "type", type |-> type, page |-> q],
                      Request(PathType \o ToLowerCase(type),
                              PageQueryString(PageParam(q))))
             /\ UNCHANGED <<variations, pass, idx>>

\* GET /api/genre/:genre
ReceiveGenre ==
    \E genre \in Genres, q \in PageQueries :
        /\ Await([route |-> "genre", genre |-> genre, page |-> q],
                 Request(PathGenre \o genre, PageQueryString(PageParam(q))))
        /\ UNCHANGED <<variations, pass, idx>>

\* GET /api/comics/:slug
ReceiveDetail ==
    \E slug \in Slugs :
        /\ Await([route |-> "detail", slug |-> slug],
                 Request(<<"/">> \o slug \o LocaleSuffix, <<>>))
        /\ UNCHANGED <<variations, pass, idx>>

\* GET /api/comics/:slug/chapter/:chapter, up to the first fetch of pass one
ReceiveChapter ==
    \E slug \in Slugs, chapter \in ChapterInputs :
        /\ Await([route |-> "chapter", slug |-> slug, chapter |-> chapter],
                 Request(ChapterPath(slug, getChapterVariations(chapter)[1]), <<>>))
        /\ variations' = getChapterVariations(chapter)
        /\ pass' = 1
        /\ idx' = 1

\* GET /api/genres: the handler neither fetches nor awaits.  It is served
\* as the first request and also after another request has been answered.
ReceiveGenres ==
    /\ pc \in {"idle", "done"}
    /\ req' = [route |-> "genres"]
    /\ Finish("none", getGenres, GenresResponse(getGenres))
    /\ UNCHANGED <<variations, pass, idx, log>>

\* the fetch of scrapeNewComics or scrapeLatestUpdates settles
HomeFetched ==
    /\ pc = "await"
    /\ req.route \in {"home_new", "home_latest"}
    /\ \E a \in Answers :
        LET section == IF req.route = "home_new" THEN "newKomik" ELSE "updateNonProject"
            result  == IF a = FAILED THEN Throw("FetchError")
                       ELSE HomeListing(HtmlOf(a), section)
        IN  /\ log' = Append(log, LogEntry(0, <<>>, IF a = FAILED THEN "failed" ELSE "loaded"))
            /\ Finish(IF a = FAILED THEN "none" ELSE a, result, ListingResponse(result))
    /\ UNCHANGED <<req, variations, pass, idx>>

\* the fetch of scrapeComicList, scrapeByType or scrapeByGenre settles
ListFetched ==
    /\ pc = "await"
    /\ req.route \in {"comics", "type", "genre"}
    /\ \E a \in Answers :
        LET result == IF a = FAILED THEN Throw("FetchError") ELSE ListPage(HtmlOf(a))
        IN  /\ log' = Append(log, LogEntry(0, <<>>, IF a = FAILED THEN "failed" ELSE "loaded"))
            /\ Finish(IF a = FAILED THEN "none" ELSE a, result, SearchResponse(result))
    /\ UNCHANGED <<req, variations, pass, idx>>

\* the fetch of scrapeComicDetail settles
DetailFetched ==
    /\ pc = "await"
    /\ req.route = "detail"
    /\ \E a \in Answers :
        LET result == IF a = FAILED THEN Throw("FetchError") ELSE ComicDetail(HtmlOf(a))
        IN  /\ log' = Append(log, LogEntry(0, <<>>, IF a = FAILED THEN "failed" ELSE "loaded"))
            /\ Finish(IF a = FAILED THEN "none" ELSE a, result, LookupResponse(result))
    /\ UNCHANGED <<req, variations, pass, idx>>

\* tryFetchChapter moves on to fetch variant i of pass p
NextProbe(p, i) ==
    /\ pc' = "await"
    /\ pass' = p
    /\ idx' = i
    /\ inflight' = Request(ChapterPath(req.slug, variations[i]), <<>>)
    /\ UNCHANGED <<req, variations, html, outcome, response>>

\* tryFetchChapter has returned: the rest of scrapeChapterImages and the route
ChapterDone(page, result) ==
    /\ Finish(page, result, LookupResponse(result))
    /\ pass' = 0
    /\ idx' = 0
    /\ UNCHANGED <<req, variations>>

\* mutant: pass one returns the requested chapter, not the variant that was fetched
PassOneFetched_RequestedChapter ==
    /\ pc = "await"
    /\ req.route = "chapter"
    /\ pass = 1
    /\ \E a \in Answers :
        LET probe == IF a = FAILED THEN "failed" ELSE ProbeImages(HtmlOf(a)) IN
        /\ log' = Append(log, LogEntry(1, variations[idx], probe))
        /\ IF probe = "images"
           THEN ChapterDone(a, ChapterImages(HtmlOf(a), req.slug, req.chapter))
           ELSE IF idx < Len(variations) THEN NextProbe(1, idx + 1)
           ELSE NextProbe(2, 1)

\* mutant: the try/catch is around the loop, so a failure or an exception in
\* pass one ends the pass
PassOneFetched_StopsOnFailure ==
    /\ pc = "await"
    /\ req.route = "chapter"
    /\ pass = 1
    /\ \E a \in Answers :
        LET probe == IF a = FAILED THEN "failed" ELSE ProbeImages(HtmlOf(a)) IN
        /\ log' = Append(log, LogEntry(1, variations[idx], probe))
        /\ IF probe = "images"
           THEN ChapterDone(a, ChapterImages(HtmlOf(a), req.slug, variations[idx]))
           ELSE IF idx < Len(variations) /\ probe = "noimages" THEN NextProbe(1, idx + 1)
           ELSE NextProbe(2, 1)

\* a fetch of probe pass one settles: the first variant whose page embeds
\* images is returned; a failure or an exception moves on to the next variant,
\* and after the last variant pass two starts over
PassOneFetched ==
    /\ pc = "await"
    /\ req.route = "chapter"
    /\ pass = 1
    /\ \E a \in Answers :
        LET probe == IF a = FAILED THEN "failed" ELSE ProbeImages(HtmlOf(a)) IN
        /\ log' = Append(log, LogEntry(1, variations[idx], probe))
        /\ IF probe = "images"
           THEN ChapterDone(a, ChapterImages(HtmlOf(a), req.slug, variations[idx]))
           ELSE IF idx < Len(variations) THEN NextProbe(1, idx + 1)
           ELSE NextProbe(2, 1)

\* mutant: the failure of the last fetch of pass two is thrown to the caller
PassTwoFetched_Rethrows ==
    /\ pc = "await"
    /\ req.route = "chapter"
    /\ pass = 2
    /\ \E a \in Answers :
        /\ log' = Append(log, LogEntry(2, variations[idx], IF a = FAILED THEN "failed" ELSE "loaded"))
        /\ IF a # FAILED
           THEN ChapterDone(a, ChapterImages(HtmlOf(a), req.slug, variations[idx]))
           ELSE IF idx < Len(variations) THEN NextProbe(2, idx + 1)
           ELSE ChapterDone("none", Throw("FetchError"))

\* mutant: when the last variant of pass two fails, pass two starts over
PassTwoFetched_Retries ==
    /\ pc = "await"
    /\ req.route = "chapter"
    /\ pass = 2
    /\ \E a \in Answers :
        /\ log' = Append(log, LogEntry(2, variations[idx], IF a = FAILED THEN "failed" ELSE "loaded"))
        /\ IF a # FAILED
           THEN ChapterDone(a, ChapterImages(HtmlOf(a), req.slug, variations[idx]))
           ELSE IF idx < Len(variations) THEN NextProbe(2, idx + 1)
           ELSE NextProbe(2, 1)

\* mutant: pass two asks for images as pass one does, and moves on from a page
\* that loaded without them
PassTwoFetched_RequiresImages ==
    /\ pc = "await"
    /\ req.route = "chapter"
    /\ pass = 2
    /\ \E a \in Answers :
        /\ log' = Append(log, LogEntry(2, variations[idx], IF a = FAILED THEN "failed" ELSE "loaded"))
        /\ IF a # FAILED /\ ProbeImages(HtmlOf(a)) = "images"
           THEN ChapterDone(a, ChapterImages(HtmlOf(a), req.slug, variations[idx]))
           ELSE IF idx < Len(variations) THEN NextProbe(2, idx + 1)
           ELSE ChapterDone("none", Null)

\* a fetch of pass two settles: the first variant that loads is returned, and
\* null once every variant has failed
PassTwoFetched ==
    /\ pc = "await"
    /\ req.route = "chapter"
    /\ pass = 2
    /\ \E a \in Answers :
        /\ log' = Append(log, LogEntry(2, variations[idx], IF a = FAILED THEN "failed" ELSE "loaded"))
        /\ IF a # FAILED
           THEN ChapterDone(a, ChapterImages(HtmlOf(a), req.slug, variations[idx]))
           ELSE IF idx < Len(variations) THEN NextProbe(2, idx + 1)
           ELSE ChapterDone("none", Null)

Next ==
    \/ ReceiveHomeNew
    \/ ReceiveHomeLatest
    \/ ReceiveComics
    \/ ReceiveType
    \/ ReceiveGenre
    \/ ReceiveDetail
    \/ ReceiveChapter
    \/ ReceiveGenres
    \/ HomeFetched
    \/ ListFetched
    \/ DetailFetched
    \/ PassOneFetched
    \/ PassTwoFetched

Spec == Init /\ [][Next]_vars

\* every awaited fetch settles: request() resolves with the page or throws
SpecLive ==
    Spec /\ WF_vars(HomeFetched) /\ WF_vars(ListFetched) /\ WF_vars(DetailFetched)
         /\ WF_vars(PassOneFetched) /\ WF_vars(PassTwoFetched)

---------------------------------------------------------------------------
(* getChapterVariations on its own: every chapter string up to a length    *)

MaxChapterLen == 4

ChapterAlphabet == {"0", "1", "5", "7", "8", "9", ".", "-", "a"}
ChapterStrings ==
    UNION {[1..n -> ChapterAlphabet] : n \in 1..MaxChapterLen}

Idle(r) ==
    /\ pc = "idle"
    /\ req = r
    /\ inflight = NoFetch
    /\ variations = <<>>
    /\ pass = 0
    /\ idx = 0
    /\ log = <<>>
    /\ html = "none"
    /\ outcome = Pending
    /\ response = NoResponse

InitVariations ==
    \E chapter \in ChapterStrings : Idle([route |-> "variations", chapter |-> chapter])

ApplyVariations ==
    /\ pc = "idle"
    /\ req.route = "variations"
    /\ pc' = "done"
    /\ variations' = getChapterVariations(req.chapter)
    /\ UNCHANGED <<req, inflight, pass, idx, log, html, outcome, response>>

SpecVariations == InitVariations /\ [][ApplyVariations]_vars

---------------------------------------------------------------------------
(* extractNextData on its own: every page, and every page with the text of *)
(* its script element cut short                                            *)

MalformedPages == {"bad_json", "trailing_json"}

TextOf(p) == HtmlOf(p).text

\* page p with only the first `cut` tokens of its script text
CutPage(p, cut) ==
    IF HtmlOf(p).element THEN WithScript(SubSeq(TextOf(p), 1, cut)) ELSE NoElement

ExtractInputs ==
    {[route |-> "extract", page |-> p, cut |-> Len(TextOf(p))] : p \in Pages}
    \cup UNION {{[route |-> "extract", page |-> p, cut |-> k] :
                    k \in 0..Len(TextOf(p))} : p \in Pages \ MalformedPages}

InitExtract == \E r \in ExtractInputs : Idle(r)

ApplyExtract ==
    /\ pc = "idle"
    /\ req.route = "extract"
    /\ pc' = "done"
    /\ outcome' = extractNextData(CutPage(req.page, req.cut))
    /\ UNCHANGED <<req, inflight, variations, pass, idx, log, html, response>>

SpecExtract == InitExtract /\ [][ApplyExtract]_vars

---------------------------------------------------------------------------
(* transformComicListing on its own: raw records with every combination of *)
(* missing fields, and slugs with the locale suffix in every position      *)

SoloLeveling == <<"s", "o", "l", "o", "-", "l", "e", "v", "e", "l", "i", "n", "g">>

\* a member of a raw record; Undefined stands for a member that is missing
Field(name, v) == IF v = Undefined THEN <<>> ELSE << <<name, v>> >>

\* title_slug: missing, empty, and the suffix at the end, nowhere, alone,
\* twice, and in the middle
TitleSlugs ==
    {Undefined, Str(<<>>), Str(SoloLeveling \o LocaleSuffix), Str(<<"s", "l">>),
     Str(LocaleSuffix), Str(<<"a">> \o LocaleSuffix \o LocaleSuffix),
     Str(LocaleSuffix \o <<"-", "x">>)}

RawComicItems ==
    {Obj(Field("title", Str(<<"T">>)) \o Field("title_slug", s)
         \o Field("type", ty) \o Field("status", st) \o Field("gambar", g)
         \o Field("latest_chapter", lc) \o Field("updated_at", up)) :
        s  \in TitleSlugs,
        ty \in {Undefined, Str(<<>>), Str(<<"m">>)},
        st \in {Undefined, Str(<<"o">>)},
        g  \in {Undefined, Null, Str(<<>>), Str(PfxImageCover \o <<"a">>)},
        lc \in {Undefined, Str(<<"8">>)},
        up \in {Undefined, Str(<<"d">>)}}

InitListing == \E item \in RawComicItems : Idle([route |-> "listing", item |-> item])

ApplyListing ==
    /\ pc = "idle"
    /\ req.route = "listing"
    /\ pc' = "done"
    /\ outcome' = transformComicListing(req.item)
    /\ UNCHANGED <<req, inflight, variations, pass, idx, log, html, response>>

SpecListing == InitListing /\ [][ApplyListing]_vars

---------------------------------------------------------------------------
(* resolveImage on its own: absent values, and paths made of zero to two    *)
(* leading slashes, a head (each prefix convention, schemes, none) and a    *)
(* remainder, with and without a "softkomik" segment of its own             *)

RawImagePaths ==
    {Undefined, Null}
    \cup {Str(slashes \o head \o rest) :
            slashes \in {<<>>, <<"/">>, <<"/", "/">>},
            head    \in {<<>>, <<"x", "/">>,
                         PfxImageCover, PfxUploadsCover \o <<"/">>,
                         PfxUploadsCover \o <<"-", "2", "/">>,
                         PfxNodeJs, PfxImgFile,
                         PfxHttp, PfxHttp \o <<"s", ":", "/", "/", "h", "/">>,
                         <<"f", "t", "p", ":", "/", "/", "h", "/">>,
                         <<"d", "a", "t", "a", ":">>},
            rest    \in {<<>>, <<"a">>,
                         <<"s", "o", "f", "t", "k", "o", "m", "i", "k", "/", "a">>,
                         <<"a">> \o SegSoftkomik \o <<"b">>,
                         PfxNodeJs \o <<"a">>}}

InitResolve == \E path \in RawImagePaths : Idle([route |-> "resolve", path |-> path])

ApplyResolve ==
    /\ pc = "idle"
    /\ req.route = "resolve"
    /\ pc' = "done"
    /\ outcome' = resolveImage(req.path)
    /\ UNCHANGED <<req, inflight, variations, pass, idx, log, html, response>>

SpecResolve == InitResolve /\ [][ApplyResolve]_vars

---------------------------------------------------------------------------
(* Several requests in flight.  The handlers are async functions: each      *)
(* call has its own parameters and locals, and the calls interleave at      *)
(* their awaits.  Here every variable holds one value per client, and log   *)
(* holds, per client, the answers upstream gave to its fetches, in order,   *)
(* each with whether another request was awaiting a fetch at that moment.   *)
(* The modules keep no variable outside their functions.                    *)

MaxClients == 2
Clients == 1..MaxClients

\* two chapters with two variants each
ConcurrentChapters == {<<"1", "7", "9">>, <<"1", "7", "8">>}
ConcurrentAnswers  == {FAILED, "ch_images", "ch_noimages"}

InitConcurrent ==
    /\ pc = [i \in Clients |-> "idle"]
    /\ req = [i \in Clients |-> [route |-> "none"]]
    /\ inflight = [i \in Clients |-> NoFetch]
    /\ variations = [i \in Clients |-> <<>>]
    /\ pass = [i \in Clients |-> 0]
    /\ idx = [i \in Clients |-> 0]
    /\ log = [i \in Clients |-> <<>>]
    /\ html = [i \in Clients |-> "none"]
    /\ outcome = [i \in Clients |-> Pending]
    /\ response = [i \in Clients |-> NoResponse]

\* what the log of client i keeps of a fetch that settled with `a`
Settled(i, a) ==
    [answer |-> a, overlapped |-> \E j \in Clients \ {i} : pc[j] = "await"]

\* the handler of client i runs up to the await of its first fetch
AwaitOf(i, r, fetch) ==
    /\ pc[i] = "idle"
    /\ pc' = [pc EXCEPT ![i] = "await"]
    /\ req' = [req EXCEPT ![i] = r]
    /\ inflight' = [inflight EXCEPT ![i] = fetch]
    /\ UNCHANGED <<log, html, outcome, response>>

\* the operation of client i has returned or thrown, and its route has answered
FinishOf(i, page, result, resp) ==
    /\ pc' = [pc EXCEPT ![i] = "done"]
    /\ inflight' = [inflight EXCEPT ![i] = NoFetch]
    /\ html' = [html EXCEPT ![i] = page]
    /\ outcome' = [outcome EXCEPT ![i] = result]
    /\ response' = [response EXCEPT ![i] = resp]

\* mutant: the variants are kept in a variable of the module, which every
\* call in flight reads and the latest call overwrites
ArriveChapter_SharedVariations(i) ==
    \E slug \in Slugs, chapter \in ConcurrentChapters :
        /\ AwaitOf(i, [route |-> "chapter", slug |-> slug, chapter |-> chapter],
                   Request(ChapterPath(slug, getChapterVariations(chapter)[1]), <<>>))
        /\ variations' = [j \in Clients |-> getChapterVariations(chapter)]
        /\ pass' = [pass EXCEPT ![i] = 1]
        /\ idx' = [idx EXCEPT ![i] = 1]

\* GET /api/comics/:slug/chapter/:chapter arrives for client i
ArriveChapter(i) ==
    \E slug \in Slugs, chapter \in ConcurrentChapters :
        /\ AwaitOf(i, [route |-> "chapter", slug |-> slug, chapter |-> chapter],
                   Request(ChapterPath(slug, getChapterVariations(chapter)[1]), <<>>))
        /\ variations' = [variations EXCEPT ![i] = getChapterVariations(chapter)]
        /\ pass' = [pass EXCEPT ![i] = 1]
        /\ idx' = [idx EXCEPT ![i] = 1]

\* GET /api/comics/:slug or GET /api/comics arrives for client i
ArriveSingle(i) ==
    /\ \/ \E slug \in Slugs :
              AwaitOf(i, [route |-> "detail", slug |-> slug],
                      Request(<<"/">> \o slug \o LocaleSuffix, <<>>))
       \/ AwaitOf(i, [route |-> "comics", page |-> Undefined, search |-> Undefined],
                  Request(PathList, <<>>))
    /\ UNCHANGED <<variations, pass, idx>>

\* GET /api/genres arrives for client i and is answered at once
ArriveGenres(i) ==
    /\ pc[i] = "idle"
    /\ req' = [req EXCEPT ![i] = [route |-> "genres"]]
    /\ FinishOf(i, "none", getGenres, GenresResponse(getGenres))
    /\ UNCHANGED <<variations, pass, idx, log>>

\* the fetch of scrapeComicDetail or scrapeComicList of client i settles
SettleSingle(i) ==
    /\ pc[i] = "await"
    /\ req[i].route \in {"detail", "comics"}
    /\ \E a \in ConcurrentAnswers :
        LET result == IF a = FAILED THEN Throw("FetchError")
                      ELSE IF req[i].route = "detail" THEN ComicDetail(HtmlOf(a))
                      ELSE ListPage(HtmlOf(a))
        IN  /\ log' = [log EXCEPT ![i] = Append(@, Settled(i, a))]
            /\ FinishOf(i, IF a = FAILED THEN "none" ELSE a, result,
                        IF req[i].route = "detail" THEN LookupResponse(result)
                        ELSE SearchResponse(result))
    /\ UNCHANGED <<req, variations, pass, idx>>

\* a fetch of tryFetchChapter of client i settles: pass one returns at the
\* first page with images, pass two at the first page that loads
SettleChapter(i) ==
    /\ pc[i] = "await"
    /\ req[i].route = "chapter"
    /\ \E a \in ConcurrentAnswers :
        LET chapterVar == variations[i][idx[i]]
            returns    == IF pass[i] = 1
                          THEN a # FAILED /\ ProbeImages(HtmlOf(a)) = "images"
                          ELSE a # FAILED
            exhausted  == ~returns /\ pass[i] = 2 /\ idx[i] = Len(variations[i])
            result     == IF returns
                          THEN ChapterImages(HtmlOf(a), req[i].slug, chapterVar)
                          ELSE Null
            nextPass   == IF idx[i] < Len(variations[i]) THEN pass[i] ELSE 2
            nextIdx    == IF idx[i] < Len(variations[i]) THEN idx[i] + 1 ELSE 1
        IN  /\ log' = [log EXCEPT ![i] = Append(@, Settled(i, a))]
            /\ IF returns \/ exhausted
               THEN /\ FinishOf(i, IF returns THEN a ELSE "none", result,
                                LookupResponse(result))
                    /\ pass' = [pass EXCEPT ![i] = 0]
                    /\ idx' = [idx EXCEPT ![i] = 0]
               ELSE /\ pass' = [pass EXCEPT ![i] = nextPass]
                    /\ idx' = [idx EXCEPT ![i] = nextIdx]
                    /\ inflight' = [inflight EXCEPT ![i] =
                           Request(ChapterPath(req[i].slug, variations[i][nextIdx]), <<>>)]
                    /\ UNCHANGED <<pc, html, outcome, response>>
    /\ UNCHANGED <<req, variations>>

NextConcurrent ==
    \E i \in Clients :
        \/ ArriveChapter(i)
        \/ ArriveSingle(i)
        \/ ArriveGenres(i)
        \/ SettleSingle(i)
        \/ SettleChapter(i)

SpecConcurrent == InitConcurrent /\ [][NextConcurrent]_vars

---------------------------------------------------------------------------
(* Properties *)

ServedChapter == pc = "done" /\ req.route = "chapter"
ServedList    == pc = "done" /\ req.route \in {"comics", "type", "genre"} /\ log # <<>>
ServedDetail  == pc = "done" /\ req.route = "detail"

\* the fetches of this request that probe pass p issued, in order
PassLog(p) == SelectSeq(log, LAMBDA e : e.pass = p)

EveryFetchFailed == log # <<>> /\ \A i \in 1..Len(log) : log[i].result = "failed"
SomeFetchLoaded  == \E i \in 1..Len(log) : log[i].result # "failed"

\* pass two fetched every variant and every fetch failed
PassTwoExhausted ==
    /\ Len(PassLog(2)) = Len(variations)
    /\ \A i \in 1..Len(PassLog(2)) : PassLog(2)[i].result = "failed"

\* the pages whose payload carries a non-empty list of image paths
ImageListPages == {"ch_images", "ch_httpimages"}

\* the pages without a payload at props.pageProps.data, or with a falsy one
NoPayloadPages == ExtractionPages

IsDigit(c) == c \in {"0", "1", "2", "3", "4", "5", "6", "7", "8", "9"}

\* a non-negative integer written plainly: digits only, no leading zero
IsPlainInteger(s) ==
    /\ s # <<>>
    /\ \A i \in 1..Len(s) : IsDigit(s[i])
    /\ (Len(s) > 1 => s[1] # "0")

\* s written with zeros on the left up to the width
ZeroPadded(s, width) ==
    [i \in 1..width |-> IF i <= width - Len(s) THEN "0" ELSE s[i - (width - Len(s))]]

\* the widths among 2, 3, 4 that are above the length, in increasing order
WiderWidths(len) == SelectSeq(<<2, 3, 4>>, LAMBDA w : len < w)

C3_OnlyPlainIntegersArePadded ==
    (pc = "done" /\ req.route = "variations" /\ ~IsPlainInteger(req.chapter))
    => variations = <<req.chapter>>

\* C4: when every fetch of every variant fails, in pass one and in pass two,
\* scrapeChapterImages returns null and the failure is not raised
C4_AllFetchesFailedIsAbsent ==
    (ServedChapter /\ EveryFetchFailed)
    => /\ outcome = Null
       /\ response.status = 404

\* C4 witness: the four variants of "8" all fail in both passes
C4_Witness ==
    /\ ServedChapter
    /\ req.chapter = <<"8">>
    /\ Len(log) = 8
    /\ EveryFetchFailed
    /\ outcome = Null

\* C5 as stated: whenever at least one variant's page loaded, the result is
\* present, whatever the page contains
C5_LoadedPageIsPresent ==
    (ServedChapter /\ SomeFetchLoaded) => outcome # Null

\* C5 as amended: scrapeChapterImages returns null exactly when every fetch of
\* pass two failed or the page it selected has no payload; a selected page
\* with a payload is never answered with null, with or without images
C5_AbsentIffExhaustedOrNoPayload ==
    ServedChapter
    => /\ (html = "none") = PassTwoExhausted
       /\ (outcome = Null) = (html = "none" \/ html \in NoPayloadPages)

\* C5 witness: pass one found no images, pass two selected a page whose
\* payload has no image data, and the result is present with no images
C5_Witness ==
    /\ ServedChapter
    /\ html = "ch_noimages"
    /\ PassLog(2) # <<>>
    /\ outcome.t = "ChapterImages"
    /\ outcome.images = Arr(<<>>)

\* C6 as stated: a detail or chapter lookup answers 404 only when upstream
\* was reached and had no payload, and answers 500 whenever its fetches failed
C6_NotFoundNeverMeansFetchFailure ==
    (ServedDetail \/ ServedChapter)
    => /\ response.status = 404 => (SomeFetchLoaded /\ html \in NoPayloadPages)
       /\ EveryFetchFailed => response.status = 500

\* C6 as amended: a detail lookup answers 404 only when its fetch loaded a
\* page without payload and 500 when its fetch failed; a chapter lookup
\* absorbs fetch failures: it answers 404 when the selected page has no
\* payload and also when every fetch of pass two failed, and it never
\* answers a fetch failure with 500
C6_DetailDistinguishesChapterAbsorbs ==
    /\ ServedDetail
       => /\ (response.status = 404) = (SomeFetchLoaded /\ html \in NoPayloadPages)
          /\ EveryFetchFailed => (response.status = 500 /\ response.error = "FetchError")
    /\ ServedChapter
       => /\ (response.status = 404) = (PassTwoExhausted \/ html \in NoPayloadPages)
          /\ response.status = 500 => response.error # "FetchError"

\* C6 witness: every fetch of a chapter lookup failed and the answer is 404
C6_Witness ==
    /\ ServedChapter
    /\ EveryFetchFailed
    /\ response.status = 404

\* C7: a query operation throws only when an upstream fetch failed; for a
\* page that was fetched it returns a value, whatever JSON the page embeds
C7_OnlyFetchFailuresThrow ==
    (pc = "done" /\ IsThrow(outcome))
    => (outcome.e = "FetchError" /\ log[Len(log)].result = "failed")

\* C8: a list, type or genre query whose page yields no payload returns
\* exactly {comics: [], currentPage: 1, totalPages: 1} and raises nothing
C8_NoPayloadGivesEmptyResult ==
    (ServedList /\ html \in NoPayloadPages)
    => /\ outcome = [t |-> "SearchResult", comics |-> [t |-> "arr", a |-> <<>>],
                     currentPage |-> [t |-> "num", n |-> 1],
                     totalPages  |-> [t |-> "num", n |-> 1]]
       /\ response.status = 200
       /\ response.count = 0

\* C8 witness: a type query whose page embeds malformed JSON
C8_Witness ==
    /\ ServedList
    /\ req.route = "type"
    /\ html = "bad_json"
    /\ outcome.t = "SearchResult"
    /\ outcome.comics = Arr(<<>>)

\* C9: every SearchResult has an integer currentPage >= 1 and an integer
\* totalPages >= 1, for any upstream payload
C9_PagesAtLeastOne ==
    (ServedList /\ outcome.t = "SearchResult")
    => /\ outcome.currentPage.t = "num" /\ outcome.currentPage.n >= 1
       /\ outcome.totalPages.t = "num" /\ outcome.totalPages.n >= 1

\* C10: extractNextData never throws; it returns null or undefined when the
\* element is missing, when its text is empty, when the text is not valid
\* JSON (here: malformed, or cut short), and when props, pageProps or data is
\* missing; otherwise it returns the value at props.pageProps.data
C10_ExtractIsAbsentOrPayload ==
    (pc = "done" /\ req.route = "extract")
    => /\ ~IsThrow(outcome)
       /\ IF \/ req.page = "no_element"
             \/ req.page = "empty_script"
             \/ req.page \in MalformedPages
             \/ req.cut < Len(TextOf(req.page))
             \/ req.page \in {"json_null", "no_props", "props_null",
                              "no_pageProps", "no_data"}
          THEN outcome \in {Null, Undefined}
          ELSE outcome = PayloadOf(req.page)

\* C10 witness: malformed JSON gave null, not an exception
C10_Witness ==
    /\ pc = "done"
    /\ req.route = "extract"
    /\ req.page = "bad_json"
    /\ outcome = Null

\* the member of a raw record is missing
Missing(item, name) == Members(item, name) = <<>>

\* C11: transformComicListing is total: for every raw record, with any of its
\* fields missing, it returns a ComicListing and raises nothing, and each
\* missing optional field (thumbnail, type, status, latestChapter, updatedAt)
\* is absent in the result
C11_ListingIsTotal ==
    (pc = "done" /\ req.route = "listing")
    => /\ ~IsThrow(outcome)
       /\ outcome.t = "ComicListing"
       /\ Missing(req.item, "gambar") => outcome.thumbnail = Null
       /\ Missing(req.item, "type") => outcome.type = Null
       /\ Missing(req.item, "status") => outcome.status = Null
       /\ Missing(req.item, "latest_chapter") => outcome.latestChapter = Null
       /\ Missing(req.item, "updated_at") => outcome.updatedAt = Null

\* C12: for every raw title_slug string s the output slug is s without the
\* locale suffix "-bahasa-indonesia" when s ends with it and s otherwise, and
\* the output url is the upstream origin, "/", and s with its suffix kept
C12_SlugStrippedUrlKeepsSuffix ==
    (pc = "done" /\ req.route = "listing" /\ ~Missing(req.item, "title_slug"))
    => LET s        == Get(req.item, "title_slug").s
           n        == Len(s) - Len(LocaleSuffix)
           suffixed == n >= 0 /\ \A i \in 1..Len(LocaleSuffix) : s[n + i] = LocaleSuffix[i]
       IN  /\ outcome.t = "ComicListing"
           /\ outcome.slug = [t |-> "str", s |-> IF suffixed THEN SubSeq(s, 1, n) ELSE s]
           /\ outcome.url = [t |-> "str", s |-> BASE_URL \o <<"/">> \o s]

\* C12 witness: "solo-leveling-bahasa-indonesia" gave the slug "solo-leveling"
\* and a url that ends with the whole raw slug
C12_Witness ==
    /\ pc = "done"
    /\ req.route = "listing"
    /\ Get(req.item, "title_slug") = Str(SoloLeveling \o LocaleSuffix)
    /\ outcome.t = "ComicListing"
    /\ outcome.slug = Str(SoloLeveling)
    /\ outcome.url = Str(BASE_URL \o <<"/">> \o SoloLeveling \o LocaleSuffix)

\* the optional members of a raw detail record and the ComicDetail fields
\* they are renamed to
DetailRenaming ==
    {<<"title_alt", "alternativeTitle">>, <<"tahun", "releaseYear">>,
     <<"author", "author">>, <<"sinopsis", "description">>,
     <<"rating", "rating">>, <<"visitor", "visitor">>}

\* C13: scrapeComicDetail keeps unknown and empty apart: an optional member
\* that upstream omits is absent in the result (genres: the empty sequence),
\* and a member that is present, an empty value (visitor 0, an empty string)
\* included, is carried over and not turned into absent
C13_DetailKeepsUnknownAndEmptyApart ==
    (ServedDetail /\ outcome.t = "ComicDetail")
    => LET raw == PayloadOf(html) IN
       /\ \A f \in DetailRenaming :
              outcome[f[2]] = IF Missing(raw, f[1]) THEN Null ELSE Get(raw, f[1])
       /\ outcome.genres = IF Missing(raw, "Genre") THEN [t |-> "arr", a |-> <<>>]
                           ELSE Get(raw, "Genre")

ResolvedPath == pc = "done" /\ req.route = "resolve" /\ req.path.t = "str"

\* the number of places of s at which seg occurs
Occurrences(s, seg) ==
    Cardinality({i \in 1..(Len(s) - Len(seg) + 1) : SubSeq(s, i, i + Len(seg) - 1) = seg})

WithoutLeadingSlash(s) == IF s # <<>> /\ s[1] = "/" THEN SubSeq(s, 2, Len(s)) ELSE s

\* the path begins, after at most one leading slash, with a cover-image prefix
IsCoverPath(s) ==
    \/ StartsWith(WithoutLeadingSlash(s), PfxImageCover)
    \/ StartsWith(WithoutLeadingSlash(s), PfxUploadsCover)

\* the path begins, after at most one leading slash, with a chapter-image directory
IsChapterPath(s) ==
    \/ StartsWith(WithoutLeadingSlash(s), PfxNodeJs)
    \/ StartsWith(WithoutLeadingSlash(s), PfxImgFile)

Letters ==
    {"a", "b", "c", "d", "e", "f", "g", "h", "i", "j", "k", "l", "m", "n", "o",
     "p", "q", "r", "s", "t", "u", "v", "w", "x", "y", "z"}

\* the string begins with a scheme: letters up to a colon
HasScheme(s) ==
    \E k \in 2..Len(s) : s[k] = ":" /\ \A i \in 1..(k - 1) : s[i] \in Letters

\* C14 as stated: for every raw path that begins with a cover-image prefix the
\* URL starts with the cover-image origin and holds no "/softkomik/" segment
C14_CoverUrlHasNoChapterSegment ==
    (ResolvedPath /\ IsCoverPath(req.path.s))
    => /\ outcome.t = "str"
       /\ StartsWith(outcome.s, COVER_BASE_URL)
       /\ Occurrences(outcome.s, SegSoftkomik) = 0

\* C14 as amended: for every raw path that begins with a cover-image prefix the
\* URL is the cover-image origin, "/", and the path without its one leading
\* slash; resolveImage adds no chapter segment, so the URL holds "/softkomik/"
\* exactly where the raw path itself does, and nowhere when the path has none
C14_CoverUrlAddsNoChapterSegment ==
    (ResolvedPath /\ IsCoverPath(req.path.s))
    => /\ outcome = [t |-> "str",
                     s |-> COVER_BASE_URL \o <<"/">> \o WithoutLeadingSlash(req.path.s)]
       /\ StartsWith(outcome.s, COVER_BASE_URL)
       /\ Occurrences(outcome.s, SegSoftkomik) = Occurrences(req.path.s, SegSoftkomik)

\* C14 witness: "/image-cover/a" is resolved under the cover origin, with no
\* chapter segment
C14_Witness ==
    /\ ResolvedPath
    /\ req.path.s = <<"/">> \o PfxImageCover \o <<"a">>
    /\ outcome.s = COVER_BASE_URL \o <<"/">> \o PfxImageCover \o <<"a">>
    /\ Occurrences(outcome.s, SegSoftkomik) = 0

\* C15 as stated: for every raw path that begins with a chapter-image
\* directory the URL starts with the image origin and holds "/softkomik/"
\* exactly once
C15_ChapterUrlHasSegmentOnce ==
    (ResolvedPath /\ IsChapterPath(req.path.s))
    => /\ outcome.t = "str"
       /\ StartsWith(outcome.s, IMAGE_BASE_URL)
       /\ Occurrences(outcome.s, SegSoftkomik) = 1

\* C15 as amended: for every raw path that begins with a chapter-image
\* directory the URL is the image origin, "/softkomik/", and the path without
\* its one leading slash; resolveImage adds the segment exactly once, so the
\* URL holds it once more than the raw path does, and exactly once when the
\* path has none
C15_ChapterUrlAddsSegmentOnce ==
    (ResolvedPath /\ IsChapterPath(req.path.s))
    => /\ outcome = [t |-> "str",
                     s |-> IMAGE_BASE_URL \o SegSoftkomik \o WithoutLeadingSlash(req.path.s)]
       /\ StartsWith(outcome.s, IMAGE_BASE_URL \o SegSoftkomik)
       /\ Occurrences(outcome.s, SegSoftkomik) = 1 + Occurrences(req.path.s, SegSoftkomik)

\* C15 witness: "/img-file/a" is resolved one directory below the image origin
C15_Witness ==
    /\ ResolvedPath
    /\ req.path.s = <<"/">> \o PfxImgFile \o <<"a">>
    /\ outcome.s = IMAGE_BASE_URL \o SegSoftkomik \o PfxImgFile \o <<"a">>
    /\ Occurrences(outcome.s, SegSoftkomik) = 1

\* C16: every input that begins with a scheme is returned unchanged, so that
\* resolving the result again changes nothing
C16_AbsoluteIsReturnedUnchanged ==
    (ResolvedPath /\ HasScheme(req.path.s))
    => /\ outcome = req.path
       /\ resolveImage(outcome) = outcome

\* the raw imageSrc sequence of a page's payload; empty when it has none
RawImageSrc(p) ==
    LET v == OptGet(OptGet(PayloadOf(p), "data"), "imageSrc")
    IN  IF v.t = "arr" THEN v.a ELSE <<>>

\* C17: in every ChapterImages result, images is the raw imageSrc sequence
\* mapped through resolveImage with the entries that resolve to absent
\* dropped: the remaining entries keep their upstream order, none is null,
\* every entry is an absolute URL, and there are at most as many as raw ones
C17_ImagesAreResolvedSources ==
    (ServedChapter /\ outcome.t = "ChapterImages")
    => LET raw    == RawImageSrc(html)
           kept   == SelectSeq(raw, LAMBDA src : resolveImage(src) # Null)
           images == outcome.images.a
       IN  /\ Len(images) = Len(kept)
           /\ \A i \in 1..Len(images) :
                  /\ images[i] = resolveImage(kept[i])
                  /\ images[i].t = "str"
                  /\ HasScheme(images[i].s)
           /\ Len(images) <= Len(raw)

\* a character with its case folded: an upper-case letter counts as its
\* lower-case letter
FoldedUnit(c) ==
    IF CodeUnit(c) \in 3..28 THEN CodeUnit(c) + 26 ELSE CodeUnit(c)

\* a comes before b in alphabetical order, whatever the case of the letters
AlphabeticallyBefore(a, b) ==
    LET n    == IF Len(a) < Len(b) THEN Len(a) ELSE Len(b)
        diff == {i \in 1..n : FoldedUnit(a[i]) # FoldedUnit(b[i])}
    IN  IF diff = {} THEN Len(a) < Len(b)
        ELSE LET i == CHOOSE k \in diff : \A j \in diff : k <= j
             IN  FoldedUnit(a[i]) < FoldedUnit(b[i])

\* C18: every call of getGenres, first or after other operations, returns
\* the same fixed list (the genre names of the source, each once), the list
\* is in alphabetical order, and the call issues no upstream fetch
C18_GenresFixedSortedOffline ==
    [][req'.route = "genres"
       => /\ pc' = "done"
          /\ log' = log
          /\ inflight' = NoFetch
          /\ Len(response'.data.a) = Len(GenreNames)
          /\ {response'.data.a[i] : i \in 1..Len(response'.data.a)}
                = {[t |-> "str", s |-> GenreNames[i]] : i \in 1..Len(GenreNames)}
          /\ \A i \in 1..(Len(response'.data.a) - 1) :
                 AlphabeticallyBefore(response'.data.a[i].s, response'.data.a[i + 1].s)]_vars

\* the upstream fetches issued so far: the settled ones and the one awaited
FetchesIssued == Len(log) + (IF pc = "await" THEN 1 ELSE 0)

\* C19: one call of scrapeChapterImages issues at most twice as many fetches
\* as there are variants, hence at most 8; a fetch is issued only when the
\* call starts or in the step that settles the fetch before it, so that never
\* more than one is in flight; and the call ends, whatever the fetches answer
C19_BoundedSequentialFetches ==
    /\ [](req.route = "chapter"
            => /\ FetchesIssued <= 2 * Len(variations)
               /\ FetchesIssued <= 8
               /\ (pc = "await") = (inflight # NoFetch))
    /\ [][(req'.route = "chapter" /\ FetchesIssued' # FetchesIssued)
            => /\ FetchesIssued' = FetchesIssued + 1
               /\ pc = "idle" \/ (pc = "await" /\ Len(log') = Len(log) + 1)]_vars
    /\ [](req.route = "chapter" => <>(pc = "done"))

\* C19 witness: the call for "8" that issued eight fetches, the last of which
\* loaded a page
C19_Witness ==
    /\ ServedChapter
    /\ Len(variations) = 4
    /\ Len(PassLog(1)) = 4
    /\ Len(PassLog(2)) = 4
    /\ log[8].result = "loaded"
    /\ outcome # Null

\* C20: pass one fetches the variants strictly in generation order; a failed
\* fetch, a parse failure or a page without images moves on to the next
\* variant, so nothing else happens before every variant was probed; and the
\* variant that yields images is the last fetch of the call: no later variant
\* is probed and pass two is not run
C20_PassOneInOrderStopsAtImages ==
    req.route = "chapter"
    => LET one == PassLog(1) IN
       /\ variations = getChapterVariations(req.chapter)
       /\ \A i \in 1..Len(one) : one[i] = log[i] /\ one[i].variant = variations[i]
       /\ (pc = "await" /\ pass = 1)
            => (Len(one) = idx - 1
                /\ inflight = Request(ChapterPath(req.slug, variations[idx]), <<>>))
       /\ \A i \in 1..Len(one) :
              IF one[i].result = "images"
              THEN pc = "done" /\ i = Len(log) /\ inflight = NoFetch
              ELSE i < Len(variations)
                   => (Len(one) > i \/ (pc = "await" /\ pass = 1 /\ idx = i + 1))
       /\ (pc = "done" \/ PassLog(2) # <<>> \/ pass = 2)
            => (Len(one) = Len(variations)
                \/ (one # <<>> /\ one[Len(one)].result = "images"))

\* C20 witness: for "8" the first fetch failed, the second page did not parse,
\* the third had images, and nothing was fetched after it
C20_Witness ==
    /\ ServedChapter
    /\ req.chapter = <<"8">>
    /\ Len(log) = 3
    /\ log[1].result = "failed" /\ log[2].result = "threw"
    /\ log[3].result = "images" /\ log[3].variant = <<"0", "0", "8">>
    /\ inflight = NoFetch

\* C21: pass two runs only after pass one has probed every variant and found
\* no images; it fetches the variants again in generation order; the first
\* fetch of pass two that succeeds is the last fetch of the call, whatever
\* the page holds; and a result produced from pass two has that variant as
\* its chapterNumber
C21_PassTwoFirstLoadedWins ==
    (req.route = "chapter" /\ (pass = 2 \/ PassLog(2) # <<>>))
    => LET one == PassLog(1)
           two == PassLog(2)
       IN  /\ Len(one) = Len(variations)
           /\ \A i \in 1..Len(one) : one[i].result # "images"
           /\ \A i \in 1..Len(two) :
                  /\ two[i] = log[Len(variations) + i]
                  /\ two[i].variant = variations[i]
                  /\ i < Len(two) => two[i].result = "failed"
           /\ (pc = "await")
                => (pass = 2 /\ Len(two) = idx - 1
                    /\ inflight = Request(ChapterPath(req.slug, variations[idx]), <<>>))
           /\ (two # <<>> /\ two[Len(two)].result = "loaded")
                => /\ pc = "done"
                   /\ inflight = NoFetch
                   /\ html # "none"
                   /\ outcome # Null
                        => (IsThrow(outcome)
                            \/ outcome.chapterNumber = variations[Len(two)])
           /\ (pc = "done" /\ (two = <<>> \/ two[Len(two)].result = "failed"))
                => (Len(two) = Len(variations) /\ outcome = Null)

\* C21 witness: for "8" pass one found no images under any variant, pass two
\* failed for "8" and loaded a page without images for "08", which became
\* the chapterNumber; "008" and "0008" were not fetched again
C21_Witness ==
    /\ ServedChapter
    /\ req.chapter = <<"8">>
    /\ Len(PassLog(1)) = 4
    /\ Len(PassLog(2)) = 2
    /\ log[5].result = "failed" /\ log[6].result = "loaded"
    /\ html = "ch_noimages"
    /\ outcome.t = "ChapterImages"
    /\ outcome.chapterNumber = <<"0", "8">>

---------------------------------------------------------------------------
(* One operation run alone against a sequence of upstream answers.          *)

\* the answers client i received, in order
AnswersOf(i) == [k \in 1..Len(log[i]) |-> log[i][k].answer]

FirstOf(S) == CHOOSE k \in S : \A m \in S : k <= m

\* tryFetchChapter alone: the variant and page it returns and the number of
\* fetches it issues when the k-th fetch is answered by answers[k]
TryFetchChapterAlone(vars_, answers) ==
    LET n == Len(vars_)
        answer(k) == IF k <= Len(answers) THEN answers[k] ELSE FAILED
        withImages == {k \in 1..n : /\ answer(k) # FAILED
                                    /\ ProbeImages(HtmlOf(answer(k))) = "images"}
        loaded == {k \in 1..n : answer(n + k) # FAILED}
    IN  IF withImages # {}
        THEN [found |-> TRUE, page |-> answer(FirstOf(withImages)),
              usedChapter |-> vars_[FirstOf(withImages)],
              fetches |-> FirstOf(withImages)]
        ELSE IF loaded # {}
        THEN [found |-> TRUE, page |-> answer(n + FirstOf(loaded)),
              usedChapter |-> vars_[FirstOf(loaded)],
              fetches |-> n + FirstOf(loaded)]
        ELSE [found |-> FALSE, page |-> "none", usedChapter |-> <<>>,
              fetches |-> 2 * n]

\* the operation of request r alone: its result, the response of its route
\* and the number of fetches it issues
RunAlone(r, answers) ==
    IF r.route = "genres"
    THEN [result |-> getGenres, response |-> GenresResponse(getGenres), fetches |-> 0]
    ELSE IF r.route = "chapter"
    THEN LET f == TryFetchChapterAlone(getChapterVariations(r.chapter), answers)
             result == IF f.found
                       THEN ChapterImages(HtmlOf(f.page), r.slug, f.usedChapter)
                       ELSE Null
         IN  [result |-> result, response |-> LookupResponse(result),
              fetches |-> f.fetches]
    ELSE LET result == IF answers[1] = FAILED THEN Throw("FetchError")
                       ELSE IF r.route = "detail" THEN ComicDetail(HtmlOf(answers[1]))
                       ELSE ListPage(HtmlOf(answers[1]))
         IN  [result |-> result,
              response |-> IF r.route = "detail" THEN LookupResponse(result)
                           ELSE SearchResponse(result),
              fetches |-> 1]

\* C22: whatever the interleaving of the fetch steps of the requests in
\* flight, every operation that has finished issued the fetches, returned the
\* result and produced the response that it does when run alone against the
\* answers it received.
C22_ConcurrentEqualsAlone ==
    \A i \in Clients :
        pc[i] = "done" =>
            LET alone == RunAlone(req[i], AnswersOf(i))
            IN  /\ Len(log[i]) = alone.fetches
                /\ outcome[i] = alone.result
                /\ response[i] = alone.response

\* two chapter calls for different chapters have finished; all four fetches
\* of the first settled while the second was awaiting one of its own, and the
\* second had two of its fetches settle while the first was awaiting
C22_Witness ==
    /\ pc[1] = "done" /\ pc[2] = "done"
    /\ req[1].route = "chapter" /\ req[2].route = "chapter"
    /\ req[1].chapter = <<"1", "7", "9">> /\ req[2].chapter = <<"1", "7", "8">>
    /\ Len(log[1]) = 4 /\ \A k \in 1..4 : log[1][k].overlapped
    /\ Len(log[2]) = 3 /\ log[2][1].overlapped /\ log[2][2].overlapped
    /\ outcome[1].t = "ChapterImages" /\ outcome[1].chapterNumber = <<"0", "1", "7", "9">>
    /\ outcome[2].t = "ChapterImages" /\ outcome[2].chapterNumber = <<"1", "7", "8">>

=============================================================================
